---- MODULE Spec2Model ----
(***************************************************************************)
(* Stage session engine of git-game: the mobile GameViewModel with its     *)
(* GitRepositoryEngine and CommandEvaluator, and the request handling of   *)
(* the web front-end (GameLayout, Terminal, StageInfo, useGameSession,     *)
(* useWebSocket, useGameStore).                                            *)
(*                                                                         *)
(* A command is the sequence of its whitespace-separated tokens; the       *)
(* blank command (empty or whitespace only) is the empty sequence.  A      *)
(* token that was written in quotes (a commit message) is one token.       *)
(* User-visible Korean texts are rendered by short ASCII texts.            *)
(***************************************************************************)
EXTENDS Integers, Sequences, FiniteSets, TLC

VARIABLES
    disk,     \* cacheDir/git-learning-mobile/stage-<id>: one directory per stage id
    vm,       \* per session: GameViewModel._uiState
    engine,   \* per session: GitRepositoryEngine fields git, currentStageId
    last,     \* the operation performed last and what it returned or logged
    ev,       \* two submissions to a freshly seeded stage, side by side
    web,      \* the web front-end: GameLayout, Terminal, StageInfo, requests in flight
    ws,       \* the web front-end: the useWebSocket hook of GameLayout and its sockets
    store     \* the web front-end: the state of useGameStore

vars == <<disk, vm, engine, last, ev, web, ws, store>>

----------------------------------------------------------------------------
(* Bounds of the model *)

\* the sessions play the first NumStages stages of the catalogue
NumStages == 2

\* characters typed on the web terminal's line and not yet submitted
MaxTyped == 2

\* hint and solution requests of the web front-end in flight at once
MaxInFlight == 2

\* commands in the web terminal's history
MaxHistory == 2

\* ArrowUp presses on the web terminal since the last Enter
MaxArrows == 2

\* stages the web session is led through
NumWebStages == 2

\* commands and hints the game store counts
MaxCount == 2

\* WebSockets one useWebSocket instance creates
MaxSockets == 6

\* clicks on the teammate simulation button
MaxClicks == 2

\* the calls of prepareStage that may throw: Git.init (1) and the first
\* MaxFail - 1 ref-moving calls of seedBaseRepo
MaxFail == 2

----------------------------------------------------------------------------
(* Texts *)

EmptyCommandMsg == "enter a command"
GitOnlyMsg == "only git commands are supported"
SimulatedMsg == "not fully executed by JGit; handled in learning mode"
DefaultCommitMsg == "Mobile commit <HH:mm:ss>"

InitialMsg(stageId) == "Initial stage " \o ToString(stageId)

StageCompleteMsg(stageId) == "stage " \o ToString(stageId) \o " complete"

StageInitMsg(stageId) == "Stage " \o ToString(stageId) \o " repository initialized"

\* String.lowercase() on one token
lowercase(tok) ==
    CASE tok = "GIT" -> "git"
      [] tok = "HEAD" -> "head"
      [] tok = "HEAD~1" -> "head~1"
      [] tok = "HEAD~3" -> "head~3"
      [] tok = "-X" -> "-x"
      [] tok = "Final: finish" -> "final: finish"
      [] OTHER -> tok

\* command.trim().lowercase()
normalize(command) == [i \in 1..Len(command) |-> lowercase(command[i])]

\* the pieces of pattern text that occur inside a (lowercased) token
Pieces(tok) ==
    {tok} \cup
    CASE tok = "fix: apply release hotfix" -> {"fix"}
      [] tok = "final: finish" -> {"final:"}
      [] tok = "abc123^..def456" -> {".."}
      [] OTHER -> {}

\* tokens written in quotes, as -m '...' or -m "..."
QuotedTokens == {"fix: apply release hotfix", "Final: finish", "release"}

----------------------------------------------------------------------------
(* Regex over token sequences.  A pattern is anchored at one of several    *)
(* token prefixes (the empty prefix: not anchored) and then needs its      *)
(* fragments to occur in order; a fragment is a run of consecutive tokens, *)
(* each containing the given piece.                                        *)

Pat(prefixes, frags) == [prefixes |-> prefixes, frags |-> frags]

IsPrefix(p, toks) ==
    /\ Len(p) <= Len(toks)
    /\ \A i \in 1..Len(p) : toks[i] = p[i]

FragAt(frag, toks, i) ==
    /\ i + Len(frag) - 1 <= Len(toks)
    /\ \A j \in 1..Len(frag) : frag[j] \in Pieces(toks[i + j - 1])

RECURSIVE FragsFrom(_, _, _)
FragsFrom(frags, toks, from) ==
    IF frags = <<>> THEN TRUE
    ELSE \E i \in from..Len(toks) :
            /\ FragAt(frags[1], toks, i)
            /\ FragsFrom(Tail(frags), toks, i + Len(frags[1]))

\* Regex.containsMatchIn(normalized)
containsMatchIn(pattern, toks) ==
    \E p \in pattern.prefixes :
        /\ IsPrefix(p, toks)
        /\ FragsFrom(pattern.frags, toks, Len(p) + 1)

----------------------------------------------------------------------------
(* StageRepository.stages: id and checks of the 20 stages *)

Check(description, patterns) == [description |-> description, patterns |-> patterns]

Stage(id, checks) == [id |-> id, checks |-> checks]

AllStages == <<
    Stage(1, << Check("git cherry-pick required",
                      << Pat({<<"git", "cherry-pick">>}, <<>>) >>) >>),
    Stage(2, << Check("git rebase -i required",
                      << Pat({<<"git", "rebase", "-i">>}, <<>>) >>) >>),
    Stage(3, << Check("git merge feature-ui required",
                      << Pat({<<"git", "merge", "feature-ui">>}, <<>>) >>) >>),
    Stage(4, << Check("git reset required",
                      << Pat({<<"git", "reset">>}, <<>>) >>) >>),
    Stage(5, << Check("a commit with a fix message required",
                      << Pat({<<"git", "commit">>}, << <<"fix">> >>) >>) >>),
    Stage(6, << Check("feature/auth branch creation required",
                      << Pat({<<"git", "checkout", "-b", "feature/auth">>,
                              <<"git", "switch", "-c", "feature/auth">>}, <<>>) >>) >>),
    Stage(7, << Check("git stash required",
                      << Pat({<<"git", "stash">>}, <<>>) >>) >>),
    Stage(8, << Check("v1.0.0 tag creation required",
                      << Pat({<<"git", "tag">>}, << <<"v1.0.0">> >>) >>) >>),
    Stage(9, << Check("range cherry-pick required",
                      << Pat({<<"git", "cherry-pick">>}, << <<"..">> >>) >>) >>),
    Stage(10, << Check("git revert required",
                       << Pat({<<"git", "revert">>}, <<>>) >>) >>),
    Stage(11, << Check("git rebase --onto required",
                       << Pat({<<"git", "rebase", "--onto">>}, <<>>) >>) >>),
    Stage(12, << Check("git reflog required",
                       << Pat({<<"git", "reflog">>}, <<>>) >>) >>),
    Stage(13, << Check("git bisect start required",
                       << Pat({<<"git", "bisect", "start">>}, <<>>) >>) >>),
    Stage(14, << Check("git worktree add required",
                       << Pat({<<"git", "worktree", "add">>}, <<>>) >>) >>),
    Stage(15, << Check("git bundle create required",
                       << Pat({<<"git", "bundle", "create">>}, <<>>) >>) >>),
    Stage(16, << Check("git notes --ref=team add required",
                       << Pat({<<"git", "notes">>}, << <<"--ref=team">>, <<"add">> >>) >>) >>),
    Stage(17, << Check("git replace required",
                       << Pat({<<"git", "replace">>}, <<>>) >>) >>),
    Stage(18, << Check("git merge -X ours required",
                       << Pat({<<"git", "merge">>}, << <<"-x", "ours">> >>) >>) >>),
    Stage(19, << Check("branch delete command required",
                       << Pat({<<"git", "branch", "-d", "feature-cleanup">>}, <<>>) >>) >>),
    Stage(20, << Check("git commit --amend required",
                       << Pat({<<"git", "commit">>}, << <<"--amend">> >>) >>),
                 Check("commit message needs Final:",
                       << Pat({<<>>}, << <<"final:">> >>) >>) >>)
>>

\* the stages the sessions play
stages == SubSeq(AllStages, 1, NumStages)

stageCount == Len(stages)

----------------------------------------------------------------------------
(* CommandEvaluator.evaluate *)

\* check.patterns.any { it.containsMatchIn(normalized) }
CheckPasses(check, normalized) ==
    \E k \in 1..Len(check.patterns) : containsMatchIn(check.patterns[k], normalized)

\* indices of the checks of the stage that the command fails
FailingChecks(stage, normalized) ==
    {k \in 1..Len(stage.checks) : ~CheckPasses(stage.checks[k], normalized)}

Min(S) == CHOOSE m \in S : \A n \in S : m <= n

\* a walk that reports the last check of the stage instead of the first failing one
WalkChecksLastFailure(stage, normalized) ==
    IF FailingChecks(stage, normalized) = {}
    THEN [passed |-> TRUE, message |-> StageCompleteMsg(stage.id)]
    ELSE [passed |-> FALSE,
          message |-> stage.checks[Len(stage.checks)].description]

\* the for loop: the first check that fails decides
WalkChecks(stage, normalized) ==
    IF FailingChecks(stage, normalized) = {}
    THEN [passed |-> TRUE, message |-> StageCompleteMsg(stage.id)]
    ELSE [passed |-> FALSE,
          message |-> stage.checks[Min(FailingChecks(stage, normalized))].description]

\* an evaluation without the guard on the empty command
evaluateNoEmptyGuard(stage, command) == WalkChecks(stage, normalize(command))

evaluate(stage, command) ==
    IF normalize(command) = <<>>
    THEN [passed |-> FALSE, message |-> EmptyCommandMsg]
    ELSE WalkChecks(stage, normalize(command))

----------------------------------------------------------------------------
(* A stage directory: absent, an empty directory (mkdirs done, Git.init    *)
(* not), or a repository with its checked-out branch, the commit messages  *)
(* of every branch from the root commit on, and its tags.  The working     *)
(* tree is clean after seeding and after every command: the only files     *)
(* written are committed by the same call.                                 *)

NoHeads == [b \in {} |-> <<>>]

NoDir == [state |-> "absent", branch |-> "", heads |-> NoHeads, tags |-> {}]

EmptyDir == [state |-> "empty", branch |-> "", heads |-> NoHeads, tags |-> {}]

Repo(branch, heads) == [state |-> "repo", branch |-> branch, heads |-> heads, tags |-> {}]

\* Git.init(): no commit yet, HEAD on the unborn default branch
UnbornRepo == Repo("master", NoHeads)

\* commits reachable from HEAD, oldest first
History(repo) ==
    IF repo.branch \in DOMAIN repo.heads THEN repo.heads[repo.branch] ELSE <<>>

HeadMessage(repo) ==
    IF History(repo) = <<>> THEN "" ELSE History(repo)[Len(History(repo))]

\* g.checkout().setCreateBranch(true).setName(name), then one commit on it
BranchCommit(repo, name, msg) ==
    [repo EXCEPT !.heads = (name :> Append(History(repo), msg)) @@ repo.heads]

\* g.commit().setMessage(msg) on the checked-out branch
CommitOn(repo, msg) ==
    [repo EXCEPT !.heads = (repo.branch :> Append(History(repo), msg)) @@ repo.heads]

\* first add + commit of seedBaseRepo, then ensureMainBranch
BaseRepo(stageId) == Repo("main", "main" :> <<InitialMsg(stageId)>>)

\* the states of the directory after each call of seedBaseRepo that moves a ref
SeedTrace(stageId) ==
    LET base == BaseRepo(stageId)
        side(name, msg) ==
            << [base EXCEPT !.branch = name, !.heads = (name :> History(base)) @@ base.heads],
               [BranchCommit(base, name, msg) EXCEPT !.branch = name],
               BranchCommit(base, name, msg) >>
    IN  <<UnbornRepo, base>> \o
        CASE stageId = 1 -> side("hotfix", "Hotfix: enable runtime patch")
          [] stageId = 3 -> side("feature-ui", "UI tweak") \o
                            << CommitOn(BranchCommit(base, "feature-ui", "UI tweak"),
                                        "Main hardening") >>
          [] stageId = 5 -> side("release", "Release prep")
          [] stageId = 9 -> side("feature-range", "Feature: add config")
          [] stageId = 10 -> << CommitOn(base, "Bad commit: off by one") >>
          [] stageId = 18 -> side("feature-merge", "Feature config") \o
                             << CommitOn(BranchCommit(base, "feature-merge", "Feature config"),
                                         "Main stable config") >>
          [] stageId = 19 -> side("feature-cleanup", "Cleanup done")
          [] OTHER -> <<>>

\* a seeding that stops after the first commit
seedBaseRepoNoBranches(stageId) == BaseRepo(stageId)

\* GitRepositoryEngine.seedBaseRepo run to its end
seedBaseRepo(stageId) == SeedTrace(stageId)[Len(SeedTrace(stageId))]

----------------------------------------------------------------------------
(* GitRepositoryEngine.runGitCommand on the directory the handle is open   *)
(* on.  A JGit call that throws is reported with threw = TRUE; execute     *)
(* turns it into a failed EngineResult.                                    *)

EngineResult(success, output) == [success |-> success, output |-> output]

\* result of runGitCommand: the EngineResult, or the exception, and the directory
Ran(success, output, dir) == [success |-> success, output |-> output, threw |-> FALSE, dir |-> dir]

Threw(dir) == [success |-> FALSE, output |-> "exec failed", threw |-> TRUE, dir |-> dir]

\* the i-th token lowercased (the verb regexes ignore case), "" past the end
Verb(command, i) == IF i <= Len(command) THEN lowercase(command[i]) ELSE ""

\* command.substringAfter(word).trim().split(" "): the tokens after the token
\* at position i when that token is literally `word`; the whole command when
\* it is not (substringAfter returns the string itself on a missing delimiter)
ArgsAfter(command, i, word) ==
    IF command[i] = word THEN SubSeq(command, i + 1, Len(command)) ELSE command

FirstOrBlank(toks) == IF toks = <<>> THEN "" ELSE toks[1]

LastOrBlank(toks) == IF toks = <<>> THEN "" ELSE toks[Len(toks)]

StartsWithDash(tok) ==
    tok \in {"-a", "-m", "-b", "-c", "-d", "-i", "-X", "--amend", "--soft", "--onto", "--ref=team"}

\* extractCommitMessage: the quoted text after -m
extractCommitMessage(command) ==
    LET at == {i \in 1..(Len(command) - 1) :
                  command[i] = "-m" /\ command[i + 1] \in QuotedTokens}
    IN  IF at = {} THEN "" ELSE command[Min(at) + 1]

\* extractTagName: the first token after `git tag` that is no option
extractTagName(command) ==
    LET at == {i \in 3..Len(command) : ~StartsWithDash(command[i])}
    IN  IF at = {} THEN "" ELSE command[Min(at)]

\* repository.resolve(ref): whether it yields an object id
resolve(dir, ref) ==
    /\ dir.state = "repo"
    /\ \/ ref \in DOMAIN dir.heads
       \/ ref \in dir.tags
       \/ ref = "HEAD" /\ Len(History(dir)) >= 1
       \/ ref = "HEAD~1" /\ Len(History(dir)) >= 2
       \/ ref = "HEAD~3" /\ Len(History(dir)) >= 4

IsAncestor(h, g) == Len(h) <= Len(g) /\ SubSeq(g, 1, Len(h)) = h

\* the verbs that only resolve their target ("learning mode")
ResolveOnly(dir, ref, what) ==
    IF ref = "" THEN Ran(FALSE, what \o " target needed", dir)
    ELSE IF ~resolve(dir, ref) THEN Ran(FALSE, "ref not found", dir)
    ELSE Ran(TRUE, what \o " target checked (learning mode)", dir)

runGitCommand(dir, command) ==
    LET v2 == Verb(command, 2)
        v3 == Verb(command, 3)
        isRepo == dir.state = "repo"
    IN
    CASE v2 = "status" ->
            IF isRepo THEN Ran(TRUE, "On branch " \o dir.branch, dir) ELSE Threw(dir)
      [] v2 = "log" ->
            IF isRepo /\ History(dir) # <<>> THEN Ran(TRUE, HeadMessage(dir), dir)
            ELSE Threw(dir)
      [] ((v2 = "checkout" /\ v3 = "-b") \/ (v2 = "switch" /\ v3 = "-c")) /\ Len(command) >= 4 ->
            LET branch == command[Len(command)] IN
            IF isRepo /\ History(dir) # <<>> /\ branch \notin DOMAIN dir.heads
            THEN Ran(TRUE, "new branch",
                     [dir EXCEPT !.branch = branch,
                                 !.heads = (branch :> History(dir)) @@ dir.heads])
            ELSE Threw(dir)
      [] v2 = "checkout" /\ Len(command) >= 3 ->
            LET branch == FirstOrBlank(ArgsAfter(command, 2, "checkout")) IN
            IF isRepo /\ branch \in DOMAIN dir.heads
            THEN Ran(TRUE, "switched branch", [dir EXCEPT !.branch = branch])
            ELSE Threw(dir)
      [] v2 = "add" ->
            IF isRepo THEN Ran(TRUE, "staged", dir) ELSE Threw(dir)
      [] v2 = "commit" ->
            LET message == IF extractCommitMessage(command) = "" THEN DefaultCommitMsg
                           ELSE extractCommitMessage(command)
            IN  IF isRepo THEN Ran(TRUE, "commit done", CommitOn(dir, message))
                ELSE Threw(dir)
      [] v2 = "tag" ->
            LET name == extractTagName(command) IN
            IF name = "" THEN Ran(FALSE, "tag name needed", dir)
            ELSE IF isRepo /\ History(dir) # <<>> /\ name \notin dir.tags
                 THEN Ran(TRUE, "tag created", [dir EXCEPT !.tags = @ \cup {name}])
                 ELSE Threw(dir)
      [] v2 = "cherry-pick" ->
            ResolveOnly(dir, FirstOrBlank(ArgsAfter(command, 2, "cherry-pick")), "cherry-pick")
      [] v2 = "merge" ->
            ResolveOnly(dir, LastOrBlank(ArgsAfter(command, 2, "merge")), "merge")
      [] v2 = "revert" ->
            ResolveOnly(dir, FirstOrBlank(ArgsAfter(command, 2, "revert")), "revert")
      [] v2 = "branch" /\ v3 = "-d" ->
            LET branch == FirstOrBlank(ArgsAfter(command, 3, "-d")) IN
            IF branch = "" THEN Ran(FALSE, "branch name needed", dir)
            ELSE IF ~isRepo \/ branch = dir.branch THEN Threw(dir)
            ELSE IF branch \notin DOMAIN dir.heads THEN Ran(TRUE, "branch deleted", dir)
            ELSE IF ~IsAncestor(dir.heads[branch], History(dir)) THEN Threw(dir)
            ELSE Ran(TRUE, "branch deleted",
                     [dir EXCEPT !.heads = [b \in DOMAIN dir.heads \ {branch} |-> dir.heads[b]]])
      [] v2 = "stash" ->
            IF isRepo /\ History(dir) # <<>> THEN Ran(TRUE, "stash done", dir) ELSE Threw(dir)
      [] OTHER -> Ran(TRUE, SimulatedMsg, dir)

\* execute from the trim on (lines 44-56), on the directory of the handle
executeOn(dir, rawCommand) ==
    IF rawCommand = <<>> THEN Ran(FALSE, EmptyCommandMsg, dir)
    ELSE IF rawCommand[1] # "git" \/ Len(rawCommand) < 2 THEN Ran(FALSE, GitOnlyMsg, dir)
    ELSE LET r == runGitCommand(dir, rawCommand)
         IN  IF r.threw THEN Ran(FALSE, "exec failed", r.dir) ELSE r

----------------------------------------------------------------------------
(* GitRepositoryEngine: prepareStage and execute on the engine's fields    *)
(* and the cache directory.  git = 0 is null; otherwise the handle is open *)
(* on directory stage-<git> (repoDir is assigned together with git).       *)
(* fail = 0: prepareStage returns.  fail = 1: Git.init throws, after       *)
(* currentStageId was set and the directory was emptied.  fail = j + 1:    *)
(* a JGit call of seedBaseRepo throws when the directory is SeedTrace[j].  *)

Sessions == {1, 2}

StageIds == {stages[i].id : i \in 1..stageCount}

NewEngine == [git |-> 0, currentStageId |-> -1]

FailPoints(stageId) == 0..Min({MaxFail, Len(SeedTrace(stageId))})

Prepared(eng, dsk, threw) == [eng |-> eng, dsk |-> dsk, threw |-> threw]

\* a preparation that opens an existing repository instead of deleting it
prepareStageKeepsDirectory(eng, dsk, stageId, fail) ==
    IF fail = 0
    THEN Prepared([git |-> stageId, currentStageId |-> stageId],
                  IF dsk[stageId].state = "repo" THEN dsk
                  ELSE [dsk EXCEPT ![stageId] = seedBaseRepo(stageId)], FALSE)
    ELSE Prepared([eng EXCEPT !.currentStageId = stageId], dsk, TRUE)

prepareStage(eng, dsk, stageId, fail) ==
    IF fail = 0
    THEN Prepared([git |-> stageId, currentStageId |-> stageId],
                  [dsk EXCEPT ![stageId] = seedBaseRepo(stageId)], FALSE)
    ELSE IF fail = 1
    THEN Prepared([eng EXCEPT !.currentStageId = stageId],
                  [dsk EXCEPT ![stageId] = EmptyDir], TRUE)
    ELSE Prepared([git |-> stageId, currentStageId |-> stageId],
                  [dsk EXCEPT ![stageId] = SeedTrace(stageId)[fail - 1]], TRUE)

\* whether execute calls prepareStage first (line 40)
NeedsPrepare(eng, stageId) == eng.git = 0 \/ stageId # eng.currentStageId

\* execute: the engine and the directories afterwards, and the EngineResult
\* (threw: prepareStage threw and the exception leaves execute)
execute(eng, dsk, stageId, rawCommand, fail) ==
    LET p == IF NeedsPrepare(eng, stageId) THEN prepareStage(eng, dsk, stageId, fail)
             ELSE Prepared(eng, dsk, FALSE)
        r == executeOn(p.dsk[p.eng.git], rawCommand)
    IN  IF p.threw
        THEN [eng |-> p.eng, dsk |-> p.dsk, threw |-> TRUE,
              result |-> EngineResult(FALSE, "")]
        ELSE [eng |-> p.eng, dsk |-> [p.dsk EXCEPT ![p.eng.git] = r.dir], threw |-> FALSE,
              result |-> EngineResult(r.success, r.output)]

----------------------------------------------------------------------------
(* GameViewModel.  terminalLogs is represented by the entries the last     *)
(* operation appended (last.logged).                                       *)

\* a ui state that starts out finished, on the last stage
FinishedUiState == [created |-> TRUE, currentStageIndex |-> 1, completedCount |-> 2,
                    showHint |-> FALSE, showSolution |-> FALSE,
                    commandInput |-> <<>>, gameFinished |-> TRUE]

GameUiState == [created |-> TRUE, currentStageIndex |-> 0, completedCount |-> 0,
                showHint |-> FALSE, showSolution |-> FALSE,
                commandInput |-> <<>>, gameFinished |-> FALSE]

NotCreated == [GameUiState EXCEPT !.created = FALSE]

\* stages[index], with the 0-based index of the view model
StageAt(index) == stages[index + 1]

currentStage(s) == StageAt(vm[s].currentStageIndex)

UiLog(text, message, success) == [text |-> text, message |-> message, success |-> success]

Did(s, op, result, logged) == [s |-> s, op |-> op, result |-> result, logged |-> logged]

\* a failure copy that also hides hint and solution
FailedCopyClearsFlags(state) ==
    [state EXCEPT !.commandInput = <<>>, !.showHint = FALSE, !.showSolution = FALSE]

\* a failure copy that sends the session back to the first stage
FailedCopyFirstStage(state) == [state EXCEPT !.commandInput = <<>>, !.currentStageIndex = 0]

\* a failure copy that counts a completion
FailedCopyCounts(state) ==
    [state EXCEPT !.commandInput = <<>>, !.completedCount = state.completedCount + 1]

\* state.copy of lines 63-66
FailedCopy(state) == [state EXCEPT !.commandInput = <<>>]

\* a success copy that does not count the completion
AdvancedCopyNoCount(state, nextIndex, finished) ==
    [state EXCEPT !.commandInput = <<>>,
                  !.currentStageIndex = IF finished THEN state.currentStageIndex ELSE nextIndex,
                  !.showHint = FALSE,
                  !.showSolution = FALSE,
                  !.gameFinished = finished]

\* state.copy of lines 74-82
AdvancedCopy(state, nextIndex, finished) ==
    [state EXCEPT !.commandInput = <<>>,
                  !.completedCount = state.completedCount + 1,
                  !.currentStageIndex = IF finished THEN state.currentStageIndex ELSE nextIndex,
                  !.showHint = FALSE,
                  !.showSolution = FALSE,
                  !.gameFinished = finished]

\* the GameViewModel constructor: init { prepareStage(stages.first().id) }
Construct(s, fail) ==
    /\ ~vm[s].created
    /\ fail \in FailPoints(stages[1].id)
    /\ LET p == prepareStage(NewEngine, disk, stages[1].id, fail) IN
       /\ disk' = p.dsk
       /\ IF p.threw
          THEN /\ UNCHANGED <<vm, engine>>
               /\ last' = Did(s, "init", "threw", <<>>)
          ELSE /\ vm' = [vm EXCEPT ![s] = GameUiState]
               /\ engine' = [engine EXCEPT ![s] = p.eng]
               /\ last' = Did(s, "init", "ok",
                              <<UiLog(StageInitMsg(stages[1].id), "", FALSE)>>)
    /\ UNCHANGED <<ev, web, ws, store>>

onCommandChanged(s, value) ==
    /\ vm[s].created
    /\ vm' = [vm EXCEPT ![s].commandInput = value]
    /\ last' = Did(s, "onCommandChanged", "ok", <<>>)
    /\ UNCHANGED <<disk, engine, ev, web, ws, store>>

\* runCommand; failExec and failNext are the fail points of the prepareStage
\* inside execute and of the prepareStage of the next stage
runCommand(s, failExec, failNext) ==
    /\ vm[s].created
    /\ LET state == vm[s]
           stage == StageAt(state.currentStageIndex)
           command == state.commandInput
           x == execute(engine[s], disk, stage.id, command, failExec)
           verdict == evaluate(stage, command)
           overallSuccess == x.result.success /\ verdict.passed
           entry == UiLog(x.result.output, verdict.message, overallSuccess)
           nextIndex == state.currentStageIndex + 1
           finished == nextIndex >= stageCount
           n == IF ~finished
                THEN prepareStage(x.eng, x.dsk, StageAt(nextIndex).id, failNext)
                ELSE Prepared(x.eng, x.dsk, FALSE)
       IN
       IF state.gameFinished
       THEN /\ failExec = 0 /\ failNext = 0
            /\ last' = Did(s, "runCommand", "noop", <<>>)
            /\ UNCHANGED <<disk, vm, engine>>
       ELSE /\ failExec \in (IF NeedsPrepare(engine[s], stage.id)
                              THEN FailPoints(stage.id) ELSE {0})
            /\ IF x.threw
               THEN /\ failNext = 0
                    /\ disk' = x.dsk
                    /\ engine' = [engine EXCEPT ![s] = x.eng]
                    /\ last' = Did(s, "runCommand", "threw", <<>>)
                    /\ UNCHANGED vm
               ELSE IF ~overallSuccess
               THEN /\ failNext = 0
                    /\ disk' = x.dsk
                    /\ engine' = [engine EXCEPT ![s] = x.eng]
                    /\ vm' = [vm EXCEPT ![s] = FailedCopy(state)]
                    /\ last' = Did(s, "runCommand", "fail", <<entry>>)
               ELSE /\ failNext \in (IF finished THEN {0}
                                     ELSE FailPoints(StageAt(nextIndex).id))
                    /\ disk' = n.dsk
                    /\ engine' = [engine EXCEPT ![s] = n.eng]
                    /\ IF n.threw
                       THEN /\ last' = Did(s, "runCommand", "threw", <<>>)
                            /\ UNCHANGED vm
                       ELSE /\ vm' = [vm EXCEPT ![s] = AdvancedCopy(state, nextIndex, finished)]
                            /\ last' = Did(s, "runCommand", "pass",
                                  <<entry,
                                    UiLog(IF finished THEN "all stages complete"
                                          ELSE StageInitMsg(StageAt(nextIndex).id), "", TRUE)>>)
    /\ UNCHANGED <<ev, web, ws, store>>

\* variant: toggleHint that also reopens a finished game
toggleHintReopens(s) ==
    /\ vm[s].created
    /\ vm' = [vm EXCEPT ![s].showHint = ~vm[s].showHint, ![s].gameFinished = FALSE]
    /\ last' = Did(s, "toggleHint", "ok", <<>>)
    /\ UNCHANGED <<disk, engine, ev, web, ws, store>>

toggleHint(s) ==
    /\ vm[s].created
    /\ vm' = [vm EXCEPT ![s].showHint = ~vm[s].showHint]
    /\ last' = Did(s, "toggleHint", "ok", <<>>)
    /\ UNCHANGED <<disk, engine, ev, web, ws, store>>

toggleSolution(s) ==
    /\ vm[s].created
    /\ vm' = [vm EXCEPT ![s].showSolution = ~vm[s].showSolution]
    /\ last' = Did(s, "toggleSolution", "ok", <<>>)
    /\ UNCHANGED <<disk, engine, ev, web, ws, store>>

resetCurrentStage(s, fail) ==
    /\ vm[s].created
    /\ fail \in FailPoints(currentStage(s).id)
    /\ LET p == prepareStage(engine[s], disk, currentStage(s).id, fail) IN
       /\ disk' = p.dsk
       /\ engine' = [engine EXCEPT ![s] = p.eng]
       /\ IF p.threw
          THEN /\ last' = Did(s, "resetCurrentStage", "threw", <<>>)
               /\ UNCHANGED vm
          ELSE /\ vm' = [vm EXCEPT ![s] = [vm[s] EXCEPT !.commandInput = <<>>,
                                                       !.showHint = FALSE,
                                                       !.showSolution = FALSE]]
               /\ last' = Did(s, "resetCurrentStage", "ok",
                              <<UiLog(StageInitMsg(currentStage(s).id), "", FALSE)>>)
    /\ UNCHANGED <<ev, web, ws, store>>

restartGame(s, fail) ==
    /\ vm[s].created
    /\ fail \in FailPoints(stages[1].id)
    /\ LET p == prepareStage(engine[s], disk, stages[1].id, fail) IN
       /\ disk' = p.dsk
       /\ engine' = [engine EXCEPT ![s] = p.eng]
       /\ IF p.threw
          THEN /\ last' = Did(s, "restartGame", "threw", <<>>)
               /\ UNCHANGED vm
          ELSE /\ vm' = [vm EXCEPT ![s] = GameUiState]
               /\ last' = Did(s, "restartGame", "ok",
                              <<UiLog("new game started", "", FALSE),
                                UiLog(StageInitMsg(stages[1].id), "", FALSE)>>)
    /\ UNCHANGED <<ev, web, ws, store>>

----------------------------------------------------------------------------
(* Two submissions to the same freshly seeded stage, side by side: what    *)
(* runCommand computes for each (lines 51-55) and the repository after it. *)

EvalCommands == {
    <<>>,
    <<"ls">>,
    <<"git", "status">>,
    <<"git", "log">>,
    <<"GIT", "cherry-pick", "hotfix">>,
    <<"git", "cherry-pick", "hotfix">>,
    <<"git", "cherry-pick", "nosuch">>,
    <<"git", "cherry-pick", "abc123^..def456">>,
    <<"git", "rebase", "-i", "HEAD~3">>,
    <<"git", "bisect", "start">>,
    <<"git", "merge", "feature-ui">>,
    <<"git", "merge", "-X", "ours", "feature-merge">>,
    <<"git", "checkout", "-b", "feature/auth">>,
    <<"git", "checkout", "-b", "feature/auth", "develop">>,
    <<"git", "checkout", "hotfix">>,
    <<"git", "commit", "-m", "fix: apply release hotfix">>,
    <<"git", "commit", "--amend", "-m", "Final: finish">>,
    <<"git", "commit", "--amend">>,
    <<"git", "commit", "-m", "Final: finish">>,
    <<"git", "reset", "--soft", "HEAD~1">>,
    <<"git", "tag", "-a", "v1.0.0", "-m", "release">>,
    <<"git", "stash">>,
    <<"git", "branch", "-d", "feature-cleanup">>,
    <<"git", "revert", "HEAD">>
}

Submission(stage, command) ==
    LET x == executeOn(seedBaseRepo(stage.id), command)
        verdict == evaluate(stage, command)
    IN  [engineSuccess |-> x.success, output |-> x.output,
         passed |-> verdict.passed, message |-> verdict.message,
         overallSuccess |-> x.success /\ verdict.passed,
         repo |-> x.dir]

NoSubmission == [engineSuccess |-> FALSE, output |-> "", passed |-> FALSE, message |-> "",
                 overallSuccess |-> FALSE, repo |-> NoDir]

\* the pair an evaluation returns
Verdict(passed, message) == [passed |-> passed, message |-> message]

EvIdle == [phase |-> "idle", stage |-> 0, a |-> <<>>, b |-> <<>>,
           ra |-> NoSubmission, rb |-> NoSubmission, again |-> Verdict(FALSE, "")]

SubmitBoth ==
    /\ ev.phase = "drawn"
    /\ ev' = [ev EXCEPT !.phase = "done",
                        !.ra = Submission(AllStages[ev.stage], ev.a),
                        !.rb = Submission(AllStages[ev.stage], ev.b)]
    /\ UNCHANGED <<disk, vm, engine, last, web, ws, store>>

\* an evaluation of what the input field holds after runCommand cleared it
EvaluateAgainFromInput ==
    /\ ev.phase = "done"
    /\ ev' = [ev EXCEPT !.phase = "again",
                        !.again = evaluate(AllStages[ev.stage], <<>>)]
    /\ UNCHANGED <<disk, vm, engine, last, web, ws, store>>

\* CommandEvaluator.evaluate called once more with the same stage and command
EvaluateAgain ==
    /\ ev.phase = "done"
    /\ ev' = [ev EXCEPT !.phase = "again",
                        !.again = evaluate(AllStages[ev.stage], ev.a)]
    /\ UNCHANGED <<disk, vm, engine, last, web, ws, store>>

----------------------------------------------------------------------------
(* The web front-end of one session: GameLayout with its useGameSession    *)
(* hook, the Terminal and the StageInfo panel with its own useGameSession  *)
(* hook.  GameLayout renders the loading overlay in place of the whole     *)
(* game container while isLoading or sessionLoading is set, which unmounts *)
(* Terminal and StageInfo; they mount again, with fresh state, when both   *)
(* are cleared.  A response that arrives for an unmounted StageInfo sets   *)
(* no state.  The stage info request of an unmounted StageInfo is not      *)
(* tracked.                                                                *)

\* useGameStore: the stage shown, the counters and the completed stages.  The
\* fields no modelled operation reads (gameState, sessionId, isConnected,
\* user, the UI flags, startTime) are left out.
StoreInit == [currentStage |-> 1, commandCount |-> 0, hintsUsed |-> 0, completedStages |-> <<>>]

\* stage ids handed to the store
StoreStageIds == 1..(NumWebStages + 1)

\* Array.prototype.includes
includes(seq, x) == \E k \in 1..Len(seq) : seq[k] = x

\* set({ currentStage: stage })
setCurrentStage(st, stage) == [st EXCEPT !.currentStage = stage]

\* a call of a store operation by a component
Called(op, arg) == Did(0, op, arg, <<>>)

\* variant: completeStage without the includes test
completeStageAlways(stageId) ==
    /\ store' = [store EXCEPT !.completedStages = Append(@, stageId)]
    /\ Len(store.completedStages) <= NumWebStages
    /\ last' = Called("completeStage", ToString(stageId))
    /\ UNCHANGED <<disk, vm, engine, ev, web, ws>>

\* completeStage (lines 100-107)
completeStage(stageId) ==
    /\ store' = IF ~includes(store.completedStages, stageId)
                THEN [store EXCEPT !.completedStages = Append(@, stageId)]
                ELSE store
    /\ last' = Called("completeStage", ToString(stageId))
    /\ UNCHANGED <<disk, vm, engine, ev, web, ws>>

\* resetGame (lines 109-118)
resetGame ==
    /\ store' = [currentStage |-> 1, commandCount |-> 0, hintsUsed |-> 0,
                 completedStages |-> <<>>]
    /\ last' = Called("resetGame", "")
    /\ UNCHANGED <<disk, vm, engine, ev, web, ws>>

\* incrementCommandCount (lines 92-94)
incrementCommandCount ==
    /\ store.commandCount < MaxCount
    /\ store' = [store EXCEPT !.commandCount = @ + 1]
    /\ last' = Called("incrementCommandCount", "")
    /\ UNCHANGED <<disk, vm, engine, ev, web, ws>>

\* incrementHints (lines 96-98)
incrementHints ==
    /\ store.hintsUsed < MaxCount
    /\ store' = [store EXCEPT !.hintsUsed = @ + 1]
    /\ last' = Called("incrementHints", "")
    /\ UNCHANGED <<disk, vm, engine, ev, web, ws>>

\* a component calls setCurrentStage (line 74)
SetStage(stage) ==
    /\ store' = setCurrentStage(store, stage)
    /\ last' = Called("setCurrentStage", ToString(stage))
    /\ UNCHANGED <<disk, vm, engine, ev, web, ws>>

RemoveAt(seq, k) == SubSeq(seq, 1, k - 1) \o SubSeq(seq, k + 1, Len(seq))

\* StageInfo's useState values at mount; its effect has called getStageInfo.
\* help is the stage id the help data was fetched for, 0 is null.
StageInfoMounted ==
    [loading |-> TRUE, stage |-> FALSE, help |-> 0, showHelp |-> FALSE,
     solution |-> FALSE, showSolution |-> FALSE]

\* GameLayout mounted, its effect has called startSession
WebInit ==
    [isLoading |-> TRUE, sessionLoading |-> TRUE, sessionId |-> FALSE,
     starting |-> TRUE,
     commands |-> 0,
     hints |-> 0, liveHints |-> <<>>,
     solutions |-> 0, liveSolutions |-> 0,
     currentLine |-> 0,
     commandHistory |-> <<>>, historyIndex |-> -1, ups |-> 0,
     info |-> StageInfoMounted]

\* GameLayout renders the game container (lines 255-268)
Mounted == ~web.isLoading /\ ~web.sessionLoading

\* Terminal's state at mount: the line, commandHistory and historyIndex
\* (lines 76-78, 167).  A line is represented by its length.  ups counts the
\* ArrowUp presses since the last Enter.
FreshTerminal(w) ==
    [w EXCEPT !.currentLine = 0, !.commandHistory = <<>>, !.historyIndex = -1, !.ups = 0]

\* commandHistory and historyIndex as the onKey handler reads them: the handler
\* is registered by the mount effect, whose dependency list is empty, so it
\* keeps the values of the first render
CapturedHistory == <<>>

CapturedIndex == -1

\* newHistory.slice(-50)
HistoryKept == 50

LastN(seq, n) == IF Len(seq) <= n THEN seq ELSE SubSeq(seq, Len(seq) - n + 1, Len(seq))

\* the game container is rendered anew: Terminal and StageInfo mount
Remount(w) ==
    [FreshTerminal(w) EXCEPT !.info = StageInfoMounted,
                             !.liveHints = <<>>, !.liveSolutions = 0]

\* useWebSocket of GameLayout.  sockets: every WebSocket the hook created, in
\* order of creation, with its readyState and whether it was ever open;
\* websocketRef and reconnectTimeoutRef index sockets and timers, 0 is null.
\* timers: every timeout onclose registered.  sinceOpen counts the reconnect
\* timers that fired since a socket last opened, clicks the clicks on the
\* teammate button, sent the simulate_teammate messages handed to a socket.
WsInit ==
    [mounted |-> TRUE, connectionStatus |-> "disconnected",
     sockets |-> <<>>, websocketRef |-> 0,
     timers |-> <<>>, reconnectTimeoutRef |-> 0,
     reconnectAttempts |-> 0, sinceOpen |-> 0,
     clicks |-> 0, sent |-> 0]

maxReconnectAttempts == 5

\* close code of a close handshake that completed
NormalClosure == 1000

\* close code the browser reports when the connection ended without a close
\* frame: it was lost, or it never opened
AbnormalClosure == 1006

CloseCodes == {NormalClosure, AbnormalClosure}

\* variant: the delay without its cap
timeoutUncapped(n) == 1000 * 2^n

\* Math.min(1000 * Math.pow(2, reconnectAttempts.current), 10000)
timeout(n) == Min({1000 * 2^n, 10000})

\* connect of a render that has the session id (lines 35-106)
connect(w) ==
    IF w.websocketRef # 0 /\ w.sockets[w.websocketRef].readyState = "OPEN"
    THEN w
    ELSE [w EXCEPT !.connectionStatus = "connecting",
                   !.sockets = Append(@, [readyState |-> "CONNECTING", opened |-> FALSE]),
                   !.websocketRef = Len(w.sockets) + 1]

\* connect() of initializeGame (line 158): the mount effect has an empty
\* dependency list, so this is the connect of the first render, whose
\* sessionId is '' (lines 36-39)
initializeGameConnect(w) == w

\* the auto-connect effect, run when sessionId has changed (lines 146-150)
autoConnect(w) == IF w.connectionStatus = "disconnected" THEN connect(w) ELSE w

\* disconnect (lines 108-121)
disconnect(w) ==
    [w EXCEPT !.timers = IF w.reconnectTimeoutRef # 0
                         THEN [@ EXCEPT ![w.reconnectTimeoutRef].state =
                                  IF @ = "pending" THEN "cleared" ELSE @]
                         ELSE @,
              !.reconnectTimeoutRef = 0,
              !.sockets = IF w.websocketRef # 0
                          THEN [@ EXCEPT ![w.websocketRef].readyState =
                                   IF @ \in {"CONNECTING", "OPEN"} THEN "CLOSING" ELSE @]
                          ELSE @,
              !.websocketRef = 0,
              !.connectionStatus = "disconnected"]

\* websocket.onopen (lines 53-60)
onopen(i) ==
    /\ i \in 1..Len(ws.sockets)
    /\ ws.sockets[i].readyState = "CONNECTING"
    /\ ws' = [ws EXCEPT !.sockets[i] = [readyState |-> "OPEN", opened |-> TRUE],
                        !.connectionStatus = "connected",
                        !.reconnectAttempts = 0,
                        !.sinceOpen = 0]
    /\ UNCHANGED <<disk, vm, engine, last, ev, web, store>>

\* the connection of socket i ends: websocket.onerror (lines 78-81) when it
\* failed, then websocket.onclose (lines 62-76), dispatched by the same task.
\* A socket that never opened closes with the abnormal code, also when
\* close(1000) was called on it; the handshake of an open socket ends with
\* the normal code or is lost.
onclose(i, code) ==
    /\ i \in 1..Len(ws.sockets)
    /\ ws.sockets[i].readyState # "CLOSED"
    /\ ~ws.sockets[i].opened => code = AbnormalClosure
    /\ LET closed == [ws EXCEPT !.sockets[i].readyState = "CLOSED",
                                !.connectionStatus = "disconnected"]
       IN IF code # NormalClosure /\ ws.reconnectAttempts < maxReconnectAttempts
          THEN ws' = [closed EXCEPT
                         !.timers = Append(@, [state |-> "pending",
                                               delay |-> timeout(ws.reconnectAttempts)]),
                         !.reconnectTimeoutRef = Len(ws.timers) + 1]
          ELSE ws' = closed
    /\ UNCHANGED <<disk, vm, engine, last, ev, web, store>>

\* variant: the reconnect timer registered with setInterval, it stays pending
TimerFiredRepeating(t) ==
    /\ t \in 1..Len(ws.timers)
    /\ ws.timers[t].state = "pending"
    /\ Len(ws.sockets) < MaxSockets
    /\ ws' = connect([ws EXCEPT !.reconnectAttempts = @ + 1,
                               !.sinceOpen = @ + 1])
    /\ UNCHANGED <<disk, vm, engine, last, ev, web, store>>

\* the reconnect timer t fires (lines 71-74)
TimerFired(t) ==
    /\ t \in 1..Len(ws.timers)
    /\ ws.timers[t].state = "pending"
    /\ Len(ws.sockets) < MaxSockets
    /\ ws' = connect([ws EXCEPT !.timers[t].state = "fired",
                               !.reconnectAttempts = @ + 1,
                               !.sinceOpen = @ + 1])
    /\ UNCHANGED <<disk, vm, engine, last, ev, web, store>>

\* GameLayout unmounts: the cleanup of its mount effect (lines 173-175) and
\* the cleanup of the hook (lines 139-143) call disconnect
Unmount ==
    /\ ws.mounted
    /\ ws' = [disconnect(disconnect(ws)) EXCEPT !.mounted = FALSE]
    /\ UNCHANGED <<disk, vm, engine, last, ev, web, store>>

\* sendMessage (lines 123-136) of a simulate_teammate message
sendMessage(w) ==
    IF w.websocketRef = 0 \/ w.sockets[w.websocketRef].readyState # "OPEN"
    THEN w
    ELSE [w EXCEPT !.sent = @ + 1]

\* GameLayout.handleTeammateSimulation (lines 246-253)
handleTeammateSimulation ==
    /\ ws.mounted
    /\ ~web.isLoading /\ ~web.sessionLoading
    /\ ws.clicks < MaxClicks
    /\ LET clicked == [ws EXCEPT !.clicks = @ + 1]
       IN ws' = IF ws.connectionStatus = "Open" THEN sendMessage(clicked) ELSE clicked
    /\ UNCHANGED <<disk, vm, engine, last, ev, web, store>>

\* the requests of the session that are in flight
InFlight == (IF web.starting THEN 1 ELSE 0) + web.commands + web.hints + web.solutions

\* the response to startSession arrives: initializeGame continues (lines 147-167)
StartSessionDone(ok) ==
    /\ web.starting
    /\ web' = Remount([web EXCEPT !.starting = FALSE, !.sessionLoading = FALSE,
                                  !.isLoading = FALSE, !.sessionId = ok])
    /\ ws' = IF ok THEN autoConnect(initializeGameConnect(ws)) ELSE ws
    /\ UNCHANGED <<disk, vm, engine, last, ev, store>>

\* Terminal onKey: a printable character
TypeChar ==
    /\ Mounted
    /\ web.currentLine < MaxTyped
    /\ web' = [web EXCEPT !.currentLine = @ + 1]
    /\ UNCHANGED <<disk, vm, engine, last, ev, ws, store>>

\* Terminal onKey: Backspace
Backspace ==
    /\ Mounted
    /\ web.currentLine > 0
    /\ web' = [web EXCEPT !.currentLine = @ - 1]
    /\ UNCHANGED <<disk, vm, engine, last, ev, ws, store>>

\* what the trimmed line of the terminal is when Enter is pressed
LineKinds == {"blank", "builtin", "server"}

\* Terminal onKey: Enter.  A line of spaces trims to nothing; builtin: the
\* line is clear, help, exit or quit.  Otherwise executeCommand calls
\* handleCommandExecution, which calls useGameSession.executeCommand when
\* there is a session id: setIsLoading(true) puts the overlay in place of the
\* game container.
Enter(kind) ==
    /\ Mounted
    /\ web.currentLine = 0 => kind = "blank"
    /\ kind # "blank" => Len(web.commandHistory) < MaxHistory
    /\ IF kind = "blank"
       THEN web' = [web EXCEPT !.currentLine = 0, !.ups = 0]
       ELSE IF kind # "server" \/ ~web.sessionId
       THEN web' = [web EXCEPT !.currentLine = 0, !.ups = 0,
                               !.commandHistory =
                                   LastN(Append(@, web.currentLine), HistoryKept),
                               !.historyIndex = -1]
       ELSE web' = [FreshTerminal(web) EXCEPT !.commands = @ + 1,
                                              !.sessionLoading = TRUE,
                                              !.liveHints = <<>>, !.liveSolutions = 0]
    /\ UNCHANGED <<disk, vm, engine, last, ev, ws, store>>

\* Terminal onKey: ArrowUp (lines 196-214)
ArrowUp ==
    /\ Mounted
    /\ web.ups < MaxArrows
    /\ LET newIndex == CapturedIndex + 1 IN
       IF Len(CapturedHistory) > 0 /\ newIndex < Len(CapturedHistory)
       THEN web' = [web EXCEPT !.ups = @ + 1,
                               !.historyIndex = newIndex,
                               !.currentLine =
                                   CapturedHistory[Len(CapturedHistory) - newIndex]]
       ELSE web' = [web EXCEPT !.ups = @ + 1]
    /\ UNCHANGED <<disk, vm, engine, last, ev, ws, store>>

\* Terminal onKey: ArrowDown (lines 216-241)
ArrowDown ==
    /\ Mounted
    /\ IF CapturedIndex > 0
       THEN web' = [web EXCEPT !.historyIndex = CapturedIndex - 1,
                               !.currentLine =
                                   CapturedHistory[Len(CapturedHistory) - (CapturedIndex - 1)]]
       ELSE IF CapturedIndex = 0
       THEN web' = [web EXCEPT !.historyIndex = -1, !.currentLine = 0]
       ELSE web' = web
    /\ UNCHANGED <<disk, vm, engine, last, ev, ws, store>>

\* the response to POST /api/command arrives: finally setIsLoading(false),
\* and handleCommandExecution continues (GameLayout lines 225-233); next: the
\* result reports the stage completed and names the next stage
CommandDone(next) ==
    /\ web.commands > 0
    /\ next => store.currentStage < NumWebStages
    /\ web' = Remount([web EXCEPT !.commands = @ - 1, !.sessionLoading = FALSE])
    /\ store' = IF next THEN setCurrentStage(store, store.currentStage + 1) ELSE store
    /\ UNCHANGED <<disk, vm, engine, last, ev, ws>>

\* a stage_completed message that names the next stage arrives on an open
\* socket (GameLayout lines 179-210).  A mounted StageInfo runs its stageId
\* effect again (StageInfo lines 125-141): it loads the stage info and keeps
\* help, solution and both flags.
onStageCompleted ==
    /\ ws.mounted
    /\ \E i \in 1..Len(ws.sockets) : ws.sockets[i].readyState = "OPEN"
    /\ store.currentStage < NumWebStages
    /\ store' = setCurrentStage(store, store.currentStage + 1)
    /\ web' = [web EXCEPT !.info.loading = IF Mounted THEN TRUE ELSE @]
    /\ UNCHANGED <<disk, vm, engine, last, ev, ws>>

\* the response to getStageInfo arrives at the mounted StageInfo (lines 126-137)
StageInfoLoaded(ok) ==
    /\ Mounted
    /\ web.info.loading
    /\ web' = [web EXCEPT !.info.loading = FALSE, !.info.stage = @ \/ ok]
    /\ UNCHANGED <<disk, vm, engine, last, ev, ws, store>>

\* the help and solution buttons are rendered (lines 186-264)
ButtonsShown == Mounted /\ ~web.info.loading /\ web.info.stage

\* StageInfo.handleGetHelp up to its await
handleGetHelp ==
    /\ ButtonsShown
    /\ IF web.info.showHelp
       THEN web' = [web EXCEPT !.info.showHelp = FALSE]
       ELSE IF web.info.help = 0
       THEN /\ web.hints + web.solutions < MaxInFlight
            /\ web' = [web EXCEPT !.hints = @ + 1,
                                    !.liveHints = Append(@, store.currentStage)]
       ELSE web' = [web EXCEPT !.info.showHelp = TRUE]
    /\ UNCHANGED <<disk, vm, engine, last, ev, ws, store>>

\* the response to getStageHelp arrives and handleGetHelp continues; live:
\* the StageInfo that asked is still mounted
HelpDone(ok, live) ==
    /\ IF live
       THEN \E k \in 1..Len(web.liveHints) :
               web' = [web EXCEPT !.hints = @ - 1,
                                  !.liveHints = RemoveAt(@, k),
                                  !.info.help = IF ok THEN web.liveHints[k] ELSE @,
                                  !.info.showHelp = TRUE]
       ELSE /\ web.hints > Len(web.liveHints)
            /\ web' = [web EXCEPT !.hints = @ - 1]
    /\ UNCHANGED <<disk, vm, engine, last, ev, ws, store>>

\* StageInfo.handleGetSolution up to its await
handleGetSolution ==
    /\ ButtonsShown
    /\ IF web.info.showSolution
       THEN web' = [web EXCEPT !.info.showSolution = FALSE]
       ELSE IF ~web.info.solution
       THEN /\ web.hints + web.solutions < MaxInFlight
            /\ web' = [web EXCEPT !.solutions = @ + 1, !.liveSolutions = @ + 1]
       ELSE web' = [web EXCEPT !.info.showSolution = TRUE]
    /\ UNCHANGED <<disk, vm, engine, last, ev, ws, store>>

\* the response arrives and handleGetSolution continues: a solution text is
\* set whatever the response was
SolutionDone(live) ==
    /\ IF live THEN web.liveSolutions > 0 ELSE web.solutions > web.liveSolutions
    /\ web' = IF live
              THEN [web EXCEPT !.solutions = @ - 1, !.liveSolutions = @ - 1,
                               !.info.solution = TRUE,
                               !.info.showSolution = TRUE]
              ELSE [web EXCEPT !.solutions = @ - 1]
    /\ UNCHANGED <<disk, vm, engine, last, ev, ws, store>>

----------------------------------------------------------------------------
(* Specifications *)

\* a command that passes the stage (StageRepository: the stage's solution)
Solution(stageId) ==
    CASE stageId = 1 -> <<"git", "cherry-pick", "hotfix">>
      [] stageId = 2 -> <<"git", "rebase", "-i", "HEAD~3">>
      [] stageId = 3 -> <<"git", "merge", "feature-ui">>
      [] OTHER -> <<"git", "reset", "--soft", "HEAD~1">>

\* commands the player of a session types
SessionCommands ==
    {<<>>, <<"git", "cherry-pick", "nosuch">>, <<"git", "checkout", "-b", "feature/auth">>}
    \cup {Solution(d) : d \in StageIds}

\* commands of two sessions side by side
SharedCommands == {
    <<"git", "cherry-pick", "hotfix">>,
    <<"git", "checkout", "-b", "feature/auth">>
}

\* session 1 constructed on a fresh installation
InitSessions ==
    /\ disk = [d \in StageIds |-> IF d = stages[1].id THEN seedBaseRepo(d) ELSE NoDir]
    /\ vm = [s \in Sessions |-> IF s = 1 THEN GameUiState ELSE NotCreated]
    /\ engine = [s \in Sessions |->
                    IF s = 1 THEN [git |-> stages[1].id, currentStageId |-> stages[1].id]
                    ELSE NewEngine]
    /\ last = Did(1, "init", "ok", <<UiLog(StageInitMsg(stages[1].id), "", FALSE)>>)

Init ==
    /\ InitSessions
    /\ ev = EvIdle
    /\ web = WebInit
    /\ ws = WsInit
    /\ store = StoreInit

Next ==
    \/ \E value \in SessionCommands : onCommandChanged(1, value)
    \/ \E failExec, failNext \in 0..MaxFail : runCommand(1, failExec, failNext)
    \/ toggleHint(1)
    \/ toggleSolution(1)
    \/ \E fail \in 0..MaxFail : resetCurrentStage(1, fail)
    \/ \E fail \in 0..MaxFail : restartGame(1, fail)

Spec == Init /\ [][Next]_vars

NextTwo ==
    \E s \in Sessions :
        \/ Construct(s, 0)
        \/ \E value \in SharedCommands : onCommandChanged(s, value)
        \/ runCommand(s, 0, 0)
        \/ resetCurrentStage(s, 0)

SpecTwo == Init /\ [][NextTwo]_vars

NextWeb ==
    \/ \E ok \in BOOLEAN : StartSessionDone(ok)
    \/ TypeChar
    \/ Backspace
    \/ \E kind \in LineKinds : Enter(kind)
    \/ ArrowUp
    \/ ArrowDown
    \/ \E next \in BOOLEAN : CommandDone(next)
    \/ \E i \in 1..MaxSockets : onopen(i)
    \/ onStageCompleted
    \/ \E ok \in BOOLEAN : StageInfoLoaded(ok)
    \/ handleGetHelp
    \/ \E ok, live \in BOOLEAN : HelpDone(ok, live)
    \/ handleGetSolution
    \/ \E live \in BOOLEAN : SolutionDone(live)

SpecWeb == Init /\ [][NextWeb]_vars

NextSocket ==
    \/ \E ok \in BOOLEAN : StartSessionDone(ok)
    \/ \E i \in 1..MaxSockets : onopen(i)
    \/ \E i \in 1..MaxSockets, code \in CloseCodes : onclose(i, code)
    \/ \E t \in 1..MaxSockets : TimerFired(t)
    \/ Unmount
    \/ handleTeammateSimulation

SpecSocket == Init /\ [][NextSocket]_vars

NextStore ==
    \/ \E stageId \in StoreStageIds : completeStage(stageId)
    \/ resetGame
    \/ incrementCommandCount
    \/ incrementHints
    \/ \E stage \in 1..NumWebStages : SetStage(stage)

SpecStore == Init /\ [][NextStore]_vars

InitEval ==
    /\ InitSessions
    /\ web = WebInit
    /\ ws = WsInit
    /\ store = StoreInit
    /\ \E st \in 1..Len(AllStages), a \in EvalCommands, b \in EvalCommands :
          ev = [EvIdle EXCEPT !.phase = "drawn", !.stage = st, !.a = a, !.b = b]

NextEval == SubmitBoth \/ EvaluateAgain

SpecEval == InitEval /\ [][NextEval]_vars

----------------------------------------------------------------------------
(* Claims on the session (GameViewModel with its engine) *)

\* the session's progression: what a failed request must leave alone
Progress(state) ==
    <<state.currentStageIndex, state.completedCount, state.gameFinished,
      state.showHint, state.showSolution>>

\* the engine outputs that report a failure
FailureOutputs ==
    {EmptyCommandMsg, GitOnlyMsg, "exec failed", "ref not found", "tag name needed",
     "branch name needed", "cherry-pick target needed", "merge target needed",
     "revert target needed"}

\* the step is a runCommand that logged an entry with this success flag
RanCommand(success) ==
    /\ last'.op = "runCommand"
    /\ last'.logged # <<>>
    /\ last'.logged[1].success = success

\* C1: a runCommand that reports success on a stage that is not the last one
\* records exactly one completion, moves to the next stage and leaves the
\* next stage's directory freshly seeded with the engine opened on it; on
\* the last stage it records the completion and finishes the game instead.
C1_PassAdvances ==
    [][ \A s \in Sessions :
          (last'.s = s /\ RanCommand(TRUE)) =>
             LET i == vm[s].currentStageIndex IN
             /\ vm'[s].completedCount = vm[s].completedCount + 1
             /\ IF i + 1 < stageCount
                THEN /\ vm'[s].currentStageIndex = i + 1
                     /\ ~vm'[s].gameFinished
                     /\ disk'[StageAt(i + 1).id] = seedBaseRepo(StageAt(i + 1).id)
                     /\ engine'[s] = [git |-> StageAt(i + 1).id,
                                      currentStageId |-> StageAt(i + 1).id]
                ELSE /\ vm'[s].currentStageIndex = i
                     /\ vm'[s].gameFinished ]_vars

\* both cases happened: every stage was passed, the last pass finished the game
C1_Witness ==
    /\ last.op = "runCommand" /\ last.result = "pass"
    /\ vm[1].gameFinished
    /\ vm[1].completedCount = stageCount
    /\ stageCount > 1

\* C2: a runCommand that reports no success leaves stage index, completed
\* count, finished flag and hint/solution flags as they were, and the logged
\* entry carries a failure reason: a failing engine output or the description
\* of a failed check.
C2_FailureKeepsState ==
    [][ \A s \in Sessions :
          (last'.s = s /\ RanCommand(FALSE)) =>
             /\ Progress(vm'[s]) = Progress(vm[s])
             /\ \/ last'.logged[1].text \in FailureOutputs
                \/ last'.logged[1].message # StageCompleteMsg(currentStage(s).id) ]_vars

\* a failed command while the hint is shown on the second stage
C2_Witness ==
    /\ last.op = "runCommand" /\ last.result = "fail"
    /\ vm[1].showHint
    /\ vm[1].currentStageIndex = 1

\* the view model's only record of hint/solution use in the attempt
HelpShown(state) == state.showHint \/ state.showSolution

\* C3 (as claimed): the first hint or solution request of an attempt sets the
\* repeat flag and resets the stage's repository; a further request in the
\* same attempt leaves the flag set and resets nothing.
C3_FirstHelpResetsOnce ==
    [][ \A s \in Sessions :
          (last'.s = s /\ last'.op \in {"toggleHint", "toggleSolution"}) =>
             LET d == currentStage(s).id IN
             IF ~HelpShown(vm[s])
             THEN HelpShown(vm'[s]) /\ disk'[d] = seedBaseRepo(d)
             ELSE HelpShown(vm'[s]) /\ disk'[d] = disk[d] ]_vars

\* C4 (as claimed): an operation that throws, and a command that fails,
\* leave the directories, the engine and the session's progression as they
\* were.
C4_FailureIsAtomic ==
    [][ \A s \in Sessions :
          (last'.s = s /\ last'.result \in {"threw", "fail"}) =>
             /\ disk' = disk
             /\ engine'[s] = engine[s]
             /\ Progress(vm'[s]) = Progress(vm[s]) ]_vars

\* C5 (as claimed): no repository of an earlier stage of a session exists
\* once the session is on a later stage.
C5_NoEarlierRepository ==
    \A s \in Sessions :
        vm[s].created =>
            \A i \in 0..(vm[s].currentStageIndex - 1) :
                disk[StageAt(i).id].state # "repo"

\* C6 (as claimed): an operation of one session changes neither the state of
\* another session nor the repository the other session's engine is open on.
C6_SessionsIsolated ==
    [][ \A t \in Sessions :
          (vm[t].created /\ last'.s # t) =>
             /\ vm'[t] = vm[t]
             /\ engine'[t] = engine[t]
             /\ disk'[engine[t].git] = disk[engine[t].git] ]_vars

\* String.contains("Hotfix:") on the commit messages of the seeds
ContainsHotfix(msg) == msg = "Hotfix: enable runtime patch"

\* C8 (as claimed): once the cherry-pick on the hotfix stage has passed and
\* the session has advanced, HEAD of that stage's repository carries the
\* hotfix commit and the next stage's repository is freshly seeded.
C8_CherryPickMovesHead ==
    (/\ last.op = "runCommand" /\ last.result = "pass"
     /\ stages[1].id = 1
     /\ vm[last.s].currentStageIndex = 1)
    => /\ ContainsHotfix(HeadMessage(disk[1]))
       /\ disk[StageAt(1).id] = seedBaseRepo(StageAt(1).id)

\* C13 (as claimed): a runCommand on a blank input reports the empty-command
\* failure and leaves every directory, the engine and the session's
\* progression as they were: no stage is prepared, nothing is committed.
C13_EmptyCommandTouchesNothing ==
    [][ \A s \in Sessions :
          (/\ last'.s = s /\ last'.op = "runCommand" /\ last'.result # "noop"
           /\ vm[s].commandInput = <<>>) =>
             /\ last'.result = "fail"
             /\ last'.logged[1].text = EmptyCommandMsg
             /\ disk' = disk
             /\ engine'[s] = engine[s]
             /\ Progress(vm'[s]) = Progress(vm[s]) ]_vars

\* C15 (as claimed): no runCommand ends with an exception: whatever the
\* engine does, the command is answered with a logged result.
C15_NoExceptionLeavesRunCommand ==
    [][ (last'.op = "runCommand" /\ last'.result # "noop") =>
          (last'.result \in {"pass", "fail"} /\ last'.logged # <<>>) ]_vars

C17_ResetKeepsProgression ==
    [][ \A s \in Sessions :
          (last'.s = s /\ last'.op = "resetCurrentStage") =>
             LET d == currentStage(s).id IN
             /\ vm'[s].currentStageIndex = vm[s].currentStageIndex
             /\ vm'[s].completedCount = vm[s].completedCount
             /\ vm'[s].gameFinished = vm[s].gameFinished
             /\ last'.result = "ok" =>
                   /\ disk'[d] = seedBaseRepo(d)
                   /\ engine'[s] = [git |-> d, currentStageId |-> d]
                   /\ ~HelpShown(vm'[s]) ]_vars

\* a reset returned on the second stage, after one completion
C17_Witness ==
    /\ last.op = "resetCurrentStage" /\ last.result = "ok"
    /\ vm[1].currentStageIndex = 1
    /\ vm[1].completedCount = 1
    /\ disk[stages[2].id] = seedBaseRepo(stages[2].id)

\* C18: no operation other than restartGame lowers the current stage index.
C18_StageIndexMonotonic ==
    [][ \A s \in Sessions :
          (last'.s = s /\ last'.op # "restartGame") =>
             vm'[s].currentStageIndex >= vm[s].currentStageIndex ]_vars

\* a command failed on the second stage and the session stayed there
C18_Witness ==
    /\ last.op = "runCommand" /\ last.result = "fail"
    /\ vm[1].currentStageIndex = 1
    /\ vm[1].completedCount = 1
    /\ ~HelpShown(vm[1])

\* the stages the session has passed since its last restart
StagesPassed(state) == state.currentStageIndex + (IF state.gameFinished THEN 1 ELSE 0)

\* C19: the completed count never exceeds the number of stages passed, and
\* no operation other than restartGame lowers it.
C19_CompletedCountBounded ==
    [][ \A s \in Sessions :
          /\ vm[s].completedCount <= StagesPassed(vm[s])
          /\ vm'[s].completedCount <= StagesPassed(vm'[s])
          /\ (last'.s = s /\ last'.op # "restartGame") =>
                vm'[s].completedCount >= vm[s].completedCount ]_vars

\* every stage was passed and a further runCommand was refused
C19_Witness ==
    /\ last.op = "runCommand" /\ last.result = "noop"
    /\ vm[1].gameFinished
    /\ vm[1].completedCount = stageCount

----------------------------------------------------------------------------
(* Claims on the evaluation of a submission *)

\* C9 (as claimed): two submissions that leave the repository in the same
\* state get the same verdict.
C9_VerdictFromRepository ==
    (ev.phase = "done" /\ ev.ra.repo = ev.rb.repo)
    => ev.ra.overallSuccess = ev.rb.overallSuccess

\* the verdict is the one of the first failing check, in declared order
FirstFailureVerdict(stage, command, r) ==
    LET n == normalize(command) IN
    /\ r.passed <=> \A k \in 1..Len(stage.checks) : CheckPasses(stage.checks[k], n)
    /\ ~r.passed =>
          \E k \in 1..Len(stage.checks) :
             /\ r.message = stage.checks[k].description
             /\ ~CheckPasses(stage.checks[k], n)
             /\ \A j \in 1..(k - 1) : CheckPasses(stage.checks[j], n)

\* C10 (as claimed): evaluate fails with the description of the first check
\* that fails, and passes only when every check holds, for every command.
C10_FirstFailureAlways ==
    ev.phase = "done" => FirstFailureVerdict(AllStages[ev.stage], ev.a, ev.ra)

\* C10 (amended): for a command that is not blank, evaluate fails with the
\* description of the first check that fails, in declared order, and passes
\* only when every check holds; a blank command fails with the empty-command
\* message before any check is examined.
C10_FirstFailureNonBlank ==
    ev.phase = "done" =>
        IF normalize(ev.a) = <<>>
        THEN ~ev.ra.passed /\ ev.ra.message = EmptyCommandMsg
        ELSE FirstFailureVerdict(AllStages[ev.stage], ev.a, ev.ra)

\* a command that fails both checks of the last stage got the first description
C10_Witness ==
    /\ ev.phase = "done"
    /\ Len(AllStages[ev.stage].checks) = 2
    /\ ev.a # <<>>
    /\ FailingChecks(AllStages[ev.stage], normalize(ev.a)) = {1, 2}
    /\ ev.ra.message = AllStages[ev.stage].checks[1].description

----------------------------------------------------------------------------
(* Claims on the web front-end *)

\* C7 (as claimed): the requests of a session are serialized: at most one
\* command, hint or solution request of the session is in flight at a time.
C7_RequestsSerialized == InFlight <= 1

----------------------------------------------------------------------------
(* Further claims on the evaluation of a submission *)

C12_PassNeedsCurrentBranch ==
    (ev.phase = "done" /\ ev.stage = 6 /\ ev.ra.overallSuccess)
    => ev.ra.repo.branch = "feature/auth"

\* the verbs the specification lists as applied by the engine, and as simulated
SafeListedVerbs ==
    {"status", "log", "branch", "switch", "checkout", "add", "commit", "tag", "merge",
     "cherry-pick", "revert", "reset", "stash"}

SimulatedVerbs == {"rebase", "worktree", "bundle", "bisect", "notes", "replace"}

\* C14 (as claimed): a git command with a simulated verb succeeds and leaves
\* the repository as seeded; a git command with a safe-listed verb is run by
\* the engine and never answered as simulated.
C14_SafeListApplied ==
    (ev.phase = "done" /\ Len(ev.a) >= 2 /\ ev.a[1] = "git") =>
        /\ Verb(ev.a, 2) \in SimulatedVerbs =>
              /\ ev.ra.engineSuccess
              /\ ev.ra.output = SimulatedMsg
              /\ ev.ra.repo = seedBaseRepo(ev.stage)
        /\ Verb(ev.a, 2) \in SafeListedVerbs => ev.ra.output # SimulatedMsg

----------------------------------------------------------------------------
(* Further claims on the web front-end *)

\* C21 (as claimed): with commands in the history, the k-th ArrowUp since
\* the last Enter puts the k-th most recent command on the input line.
C21_ArrowUpRecalls ==
    [][ (/\ web'.ups = web.ups + 1
         /\ web.ups < Len(web.commandHistory))
        => web'.currentLine =
              web.commandHistory[Len(web.commandHistory) - web.ups] ]_vars

\* C22 (as claimed): a click on the teammate simulation button while the hook
\* reports the connected status hands one simulate_teammate message to the
\* socket.
C22_TeammateMessageSent ==
    [][ (/\ ws'.clicks = ws.clicks + 1
         /\ ws.connectionStatus = "connected")
        => ws'.sent = ws.sent + 1 ]_vars

\* C26 (as claimed): once disconnect has been called (GameLayout, the only
\* caller, calls it when it unmounts and never calls connect afterwards), the
\* hook creates no further WebSocket.
C26_NoSocketAfterDisconnect ==
    [][ ~ws.mounted => Len(ws'.sockets) = Len(ws.sockets) ]_vars

\* the sockets that are connecting or open
LiveSockets == {i \in 1..Len(ws.sockets) : ws.sockets[i].readyState \in {"CONNECTING", "OPEN"}}

\* the reconnect timers that were registered and neither fired nor cleared
PendingTimers == {t \in 1..Len(ws.timers) : ws.timers[t].state = "pending"}

\* the delays of the reconnect attempts after an open, in order
ReconnectDelays == <<1000, 2000, 4000, 8000, 10000>>

\* At most maxReconnectAttempts reconnect timers fire between two opens,
\* the one pending after n of them has delay min(1000 * 2^n, 10000) ms, and
\* none is pending once the bound is reached.
ReconnectWithinBound ==
    /\ ws.sinceOpen <= maxReconnectAttempts
    /\ ws.reconnectAttempts = ws.sinceOpen
    /\ \A t \in PendingTimers :
          /\ ws.sinceOpen < maxReconnectAttempts
          /\ ws.timers[t].delay = ReconnectDelays[ws.sinceOpen + 1]

\* the attempt counter returns to 0 only in a step in which a socket opens
CounterResetOnlyOnOpen ==
    (ws.reconnectAttempts > 0 /\ ws'.reconnectAttempts = 0)
    => \E i \in 1..Len(ws.sockets) :
          ws.sockets[i].readyState = "CONNECTING" /\ ws'.sockets[i].readyState = "OPEN"

\* C27: reconnection is bounded as stated above, in every state, and the
\* counter is reset by an open only.
C27_ReconnectBounded == []ReconnectWithinBound /\ [][CounterResetOnlyOnOpen]_vars

\* the bound was reached: the last permitted reconnect attempt failed and no
\* timer is pending
C27_Witness ==
    /\ ws.sinceOpen = maxReconnectAttempts
    /\ LiveSockets = {}
    /\ PendingTimers = {}
    /\ \E t \in 1..Len(ws.timers) : ws.timers[t].delay = 10000

\* C28: at most one socket of the hook is connecting or open.
C28_OneLiveSocket == Cardinality(LiveSockets) <= 1

\* a reconnect timer has replaced a closed socket by a live one, after an
\* earlier socket had been open
C28_Witness ==
    /\ Cardinality(LiveSockets) = 1
    /\ ws.sinceOpen > 0
    /\ \E i \in 1..Len(ws.sockets) : ws.sockets[i].opened /\ ws.sockets[i].readyState = "CLOSED"

----------------------------------------------------------------------------
(* Further claims on the session *)

\* C23: in every state of a constructed GameViewModel the stage index is
\* within the catalogue, the completed count equals the index while the game
\* is not finished, and once it is finished the count is the number of stages
\* and the index is the last stage's.
C23_StateWellFormed ==
    \A s \in Sessions :
       vm[s].created =>
          /\ 0 <= vm[s].currentStageIndex
          /\ vm[s].currentStageIndex < stageCount
          /\ ~vm[s].gameFinished => vm[s].completedCount = vm[s].currentStageIndex
          /\ vm[s].gameFinished =>
                /\ vm[s].completedCount = stageCount
                /\ vm[s].currentStageIndex = stageCount - 1

\* a command passed the first stage but preparing the second one threw: the
\* engine is already on the second stage, the UI state still on the first
C23_Witness ==
    /\ last.op = "runCommand" /\ last.result = "threw"
    /\ vm[1].currentStageIndex = 0
    /\ vm[1].completedCount = 0
    /\ engine[1].currentStageId = stages[2].id

\* C24: in a finished game runCommand changes neither the UI state nor the
\* repository and logs nothing, and no operation other than restartGame
\* clears the finished flag.
C24_FinishedIsAbsorbing ==
    [][ \A s \in Sessions :
          (vm[s].gameFinished /\ last'.s = s) =>
             /\ last'.op = "runCommand" =>
                   /\ vm'[s] = vm[s]
                   /\ disk' = disk
                   /\ engine'[s] = engine[s]
                   /\ last'.logged = <<>>
             /\ last'.op \in {"runCommand", "toggleHint", "toggleSolution",
                               "resetCurrentStage", "onCommandChanged"}
                   => vm'[s].gameFinished ]_vars

\* the current stage of a finished game was reset and the game is still
\* finished
C24_Witness ==
    /\ last.op = "resetCurrentStage" /\ last.result = "ok"
    /\ vm[1].gameFinished
    /\ vm[1].completedCount = stageCount

\* C25 (as claimed): a runCommand that does not advance the session logs no
\* "stage N complete" message.
C25_CompleteMessageOnlyOnAdvance ==
    [][ \A s \in Sessions :
          (/\ last'.s = s /\ last'.op = "runCommand"
           /\ last'.logged # <<>>
           /\ vm'[s].completedCount = vm[s].completedCount)
          => last'.logged[1].message # StageCompleteMsg(currentStage(s).id) ]_vars

\* C29 (as claimed): the detailed help StageInfo displays was fetched for the
\* stage it shows.
C29_HelpOfShownStage ==
    (ButtonsShown /\ web.info.showHelp /\ web.info.help # 0)
    => web.info.help = store.currentStage

\* no stage id occurs twice in completedStages
NoDuplicates ==
    \A i, j \in 1..Len(store.completedStages) :
       i # j => store.completedStages[i] # store.completedStages[j]

\* completeStage of an id already present changes nothing in the store, one
\* of a new id appends it and changes nothing else; besides completeStage
\* only resetGame changes completedStages, and it empties it
CompletionOrderKept ==
    /\ \A id \in StoreStageIds :
          (last'.op = "completeStage" /\ last'.result = ToString(id)) =>
             IF includes(store.completedStages, id)
             THEN store' = store
             ELSE store' = [store EXCEPT !.completedStages = Append(@, id)]
    /\ last'.op = "resetGame" => store'.completedStages = <<>>
    /\ last'.op \notin {"completeStage", "resetGame"}
          => store'.completedStages = store.completedStages

\* C30: completedStages never holds a stage id twice, completeStage is
\* idempotent, and completedStages lists the ids in the order of their first
\* completion since the last reset.
C30_CompletedStagesOrdered == []NoDuplicates /\ [][CompletionOrderKept]_vars

\* stage 1 was completed, then stage 2, and completeStage(1) was called again
C30_Witness ==
    /\ last.op = "completeStage" /\ last.result = ToString(1)
    /\ store.completedStages = <<1, 2>>

====
